---- MODULE Spec2Model ----
(***************************************************************************)
(* Model of pkg/kubernetes/util/diff.go (tanka): DiffName, DiffStr,        *)
(* Diffstat, FilteredErr.Write, terminal_width and isCommandAvailable.     *)
(*                                                                         *)
(* A Go string is a sequence of one-character strings, so that Replace,    *)
(* Split, Sprintf and concatenation are computed and not assumed.          *)
(* External commands (icdiff, diff, diffstat, stty, /bin/sh) and the       *)
(* operating system (temp directory, file writes, stderr) are the          *)
(* environment: every outcome they can produce is a nondeterministic       *)
(* choice of the action that calls them.                                   *)
(***************************************************************************)
EXTENDS Integers, Sequences, FiniteSets, TLC

VARIABLES
    calls,      \* DiffStr: per goroutine, the locals of its DiffStr call
    dirs,       \* the directories that exist under os.TempDir()
    files,      \* the regular files that exist: path -> contents
    proc,       \* the Go process: "running", "exited" (os.Exit) or "panicked"
    manifest,   \* DiffName: the manifest passed in
    diffName,   \* DiffName: the call's state and result
    stat,       \* Diffstat: the call's argument, command outcome and result
    filt,       \* FilteredErr: the receiver r (a sequence of regexps)
    stderr,     \* what os.Stderr has received
    wr,         \* FilteredErr.Write: the last call's argument and result
    tw          \* terminal_width: the stty outcome and the result

diffVars == <<calls, dirs, files, proc>>
nameVars == <<manifest, diffName>>
statVars == <<stat>>
filtVars == <<filt, stderr, wr>>
twVars == <<tw>>
vars == <<calls, dirs, files, proc, manifest, diffName, stat, filt, stderr, wr, tw>>

(***************************************************************************)
(* Bounds of the model.                                                    *)
(***************************************************************************)
\* longest field of a manifest (apiVersion, kind, namespace, name)
MaxFieldLen == 2
\* number of goroutines that may be inside DiffStr at once
NumCalls == 2
\* longest chunk handed to FilteredErr.Write
MaxChunkLen == 2
\* number of Write calls in one run of the filter
MaxWrites == 2
\* longest output of `stty size`
MaxSttyLen == 4
\* longest text handed to Diffstat and longest output of diffstat
MaxDiffLen == 2

(***************************************************************************)
(* Strings.                                                                *)
(***************************************************************************)
\* all strings over alphabet of length at most n
StringsUpTo(alphabet, n) == UNION {[1..k -> alphabet] : k \in 0..n}

Contains(s, ch) == \E i \in 1..Len(s) : s[i] = ch

\* index of the first ch in s (s contains ch)
IndexOf(s, ch) == CHOOSE i \in 1..Len(s) : s[i] = ch /\ \A j \in 1..(i - 1) : s[j] # ch

\* strings.Replace(s, old, new, n) for one-character old and new; n < 0: no limit
RECURSIVE StringsReplace(_, _, _, _)
StringsReplace(s, old, new, n) ==
    IF s = <<>> \/ n = 0 THEN s
    ELSE IF Head(s) = old
         THEN <<new>> \o StringsReplace(Tail(s), old, new, n - 1)
         ELSE <<Head(s)>> \o StringsReplace(Tail(s), old, new, n)

\* strings.Split(s, sep) for a one-character sep: always at least one part
RECURSIVE StringsSplit(_, _)
StringsSplit(s, sep) ==
    IF ~Contains(s, sep) THEN <<s>>
    ELSE LET i == IndexOf(s, sep)
         IN <<SubSeq(s, 1, i - 1)>> \o StringsSplit(SubSeq(s, i + 1, Len(s)), sep)

\* strings.Join(parts, sep)
RECURSIVE StringsJoin(_, _)
StringsJoin(parts, sep) ==
    IF parts = <<>> THEN <<>>
    ELSE IF Len(parts) = 1 THEN parts[1]
         ELSE parts[1] \o sep \o StringsJoin(Tail(parts), sep)

(***************************************************************************)
(* DiffName.                                                               *)
(***************************************************************************)
FieldChars == {"a", "/"}
Fields == StringsUpTo(FieldChars, MaxFieldLen)
Manifests == [apiVersion : Fields, kind : Fields, namespace : Fields, name : Fields]

\* fmt.Sprintf("%s.%s.%s.%s", a, b, c, d)
Sprintf4(a, b, c, d) == a \o <<".">> \o b \o <<".">> \o c \o <<".">> \o d

\* DiffName with the replacement limited to the first '/'
DiffNameFirstOnly(m) ==
    StringsReplace(Sprintf4(m.apiVersion, m.kind, m.namespace, m.name), "/", "-", 1)

DiffName(m) ==
    StringsReplace(Sprintf4(m.apiVersion, m.kind, m.namespace, m.name), "/", "-", -1)

NoManifest == [apiVersion |-> <<>>, kind |-> <<>>, namespace |-> <<>>, name |-> <<>>]
NoName == [done |-> FALSE, out |-> <<>>]

\* one call DiffName(manifest)
DiffNameCall ==
    /\ ~diffName.done
    /\ diffName' = [done |-> TRUE, out |-> DiffName(manifest)]
    /\ UNCHANGED <<manifest, diffVars, statVars, filtVars, twVars>>

(***************************************************************************)
(* os/exec: the outcome of one cmd.Run / cmd.Output.                       *)
(***************************************************************************)
\* exit codes an external command is run with here; -1 is what
\* ExitError.ExitCode() reports for a process killed by a signal
ExitCodes == {0, 1, 2, -1}
\* the process ran and exited with a code, or could not be started
RunResults == [kind : {"exit"}, code : ExitCodes] \cup {[kind |-> "starterr", code |-> 0]}

NilErr == [kind |-> "nil", code |-> 0]
\* the error cmd.Run returns: nil for exit 0, *exec.ExitError for any other
\* exit, another error (*exec.Error, *os.PathError) when the start failed
CmdRunErr(res) ==
    IF res.kind = "exit"
    THEN IF res.code = 0 THEN NilErr ELSE [kind |-> "ExitError", code |-> res.code]
    ELSE [kind |-> "ExecError", code |-> 0]

(***************************************************************************)
(* Diffstat.                                                               *)
(***************************************************************************)
DiffTexts == StringsUpTo({"+", "-"}, MaxDiffLen)
StatOuts == StringsUpTo({"s", "\n"}, MaxDiffLen)

\* Diffstat that accepts exit code 1 as DiffStr does
DiffstatAcceptOne(d, res, stdout) ==
    LET err == CmdRunErr(res)
    IN IF err # NilErr /\ ~(err.kind = "ExitError" /\ err.code = 1)
       THEN [isnil |-> TRUE, out |-> <<>>, err |-> [kind |-> "errorString", code |-> 0]]
       ELSE [isnil |-> FALSE, out |-> stdout, err |-> NilErr]

\* Diffstat(d): res and stdout are what `diffstat -C` did with d on its stdin.
\* The result is (*string, error): isnil says the pointer is nil.
Diffstat(d, res, stdout) ==
    LET err == CmdRunErr(res)
    IN IF err # NilErr
       THEN [isnil |-> TRUE, out |-> <<>>, err |-> [kind |-> "errorString", code |-> 0]]
       ELSE [isnil |-> FALSE, out |-> stdout, err |-> NilErr]

NoStatRet == [isnil |-> TRUE, out |-> <<>>, err |-> NilErr]
NoRun == [kind |-> "none", code |-> 0]
NoStat == [done |-> FALSE, d |-> <<>>, res |-> NoRun, stdout |-> <<>>, ret |-> NoStatRet]

\* one call Diffstat(stat.d); a command that never started wrote nothing
DiffstatCall ==
    /\ ~stat.done
    /\ \E res \in RunResults, stdout \in StatOuts :
          /\ res.kind = "starterr" => stdout = <<>>
          /\ stat' = [stat EXCEPT !.done = TRUE, !.res = res, !.stdout = stdout,
                                  !.ret = Diffstat(stat.d, res, stdout)]
    /\ UNCHANGED <<diffVars, nameVars, filtVars, twVars>>

(***************************************************************************)
(* FilteredErr.                                                            *)
(***************************************************************************)
ChunkChars == {"W", "x", "a"}
Chunks == StringsUpTo(ChunkChars, MaxChunkLen)
\* the regular expressions ^W and x: an optional ^ and a literal
Regexps == {[anchored |-> TRUE, lit |-> <<"W">>], [anchored |-> FALSE, lit |-> <<"x">>]}
Filters == StringsUpTo(Regexps, 2)

\* (*regexp.Regexp).Match(p): the literal occurs in p, at the start if anchored
RegexpMatch(re, p) ==
    \E i \in 1..(Len(p) - Len(re.lit) + 1) :
        /\ re.anchored => i = 1
        /\ SubSeq(p, i, i + Len(re.lit) - 1) = re.lit

\* os.Stderr.Write(p) when the descriptor accepts n bytes: (n, err), err
\* non-nil when n < len(p) or the write failed
StderrOutcomes(p) ==
    {[n |-> Len(p), err |-> NilErr]}
        \cup {[n |-> k, err |-> [kind |-> "PathError", code |-> 0]] : k \in 0..(Len(p) - 1)}
        \cup {[n |-> 0, err |-> [kind |-> "PathError", code |-> 0]]}

\* the loop of Write from pattern i on: TRUE when it returns from inside
RECURSIVE MatchLoop(_, _, _)
MatchLoop(r, p, i) ==
    IF i > Len(r) THEN FALSE
    ELSE IF RegexpMatch(r[i], p) THEN TRUE
         ELSE MatchLoop(r, p, i + 1)

\* Write that tests the first pattern only
FilteredErrWriteFirstOnly(r, p, under) ==
    IF r # <<>> /\ RegexpMatch(r[1], p)
    THEN [n |-> Len(p), err |-> NilErr, fwd |-> <<>>]
    ELSE [n |-> under.n, err |-> under.err, fwd |-> SubSeq(p, 1, under.n)]

\* r.Write(p): the result (n, err) and the bytes that reached os.Stderr;
\* under is what os.Stderr.Write(p) does if it is called
FilteredErrWrite(r, p, under) ==
    IF MatchLoop(r, p, 1)
    THEN [n |-> Len(p), err |-> NilErr, fwd |-> <<>>]
    ELSE [n |-> under.n, err |-> under.err, fwd |-> SubSeq(p, 1, under.n)]

NoWrite == [count |-> 0, p |-> <<>>, under |-> [n |-> 0, err |-> NilErr],
            n |-> 0, err |-> NilErr, before |-> <<>>]
\* one call filt.Write(p)
Write ==
    /\ wr.count < MaxWrites
    /\ \E p \in Chunks :
        \E under \in StderrOutcomes(p) :
          LET w == FilteredErrWrite(filt, p, under)
          IN /\ stderr' = stderr \o w.fwd
             /\ wr' = [count |-> wr.count + 1, p |-> p, under |-> under,
                       n |-> w.n, err |-> w.err, before |-> stderr]
    /\ UNCHANGED <<filt, diffVars, nameVars, statVars, twVars>>

(***************************************************************************)
(* terminal_width.                                                         *)
(***************************************************************************)
SttyChars == {"8", " ", "\n"}
\* what cmd.Output() of `stty size` returns: err says it failed
SttyResults == [err : BOOLEAN, out : StringsUpTo(SttyChars, MaxSttyLen)]
Default80 == <<"8", "0">>

\* terminal_width(): the string returned, or a panic (index out of range)
\* when strings.Split gives fewer than two parts
terminal_width(res) ==
    IF res.err THEN [panic |-> FALSE, val |-> Default80]
    ELSE LET parts == StringsSplit(res.out, " ")
         IN IF Len(parts) < 2
            THEN [panic |-> TRUE, val |-> <<>>]
            ELSE [panic |-> FALSE, val |-> parts[2]]

NoTw == [done |-> FALSE, res |-> [err |-> FALSE, out |-> <<>>], panic |-> FALSE, val |-> <<>>]

\* one call terminal_width()
TerminalWidthCall ==
    /\ ~tw.done
    /\ LET w == terminal_width(tw.res)
       IN tw' = [tw EXCEPT !.done = TRUE, !.panic = w.panic, !.val = w.val]
    /\ UNCHANGED <<diffVars, nameVars, statVars, filtVars>>

(***************************************************************************)
(* DiffStr.  Each goroutine c runs one DiffStr call at a time; the steps   *)
(* of a call are its system calls, in the order of the code.               *)
(***************************************************************************)
Calls == 1..NumCalls
\* the name argument: a file name as DiffName computes it (no '/')
Names == {<<"a">>, <<"b">>}
\* the is and should arguments
Texts == {<<>>, <<"x", "\n">>, <<"y", "\n">>}
\* what the comparison command writes to its standard output
DiffOuts == {<<>>, <<"@", "\n">>}
\* the random suffixes ioutil.TempDir may draw
Suffixes == {<<"1">>, <<"2">>, <<"3">>}

\* os.TempDir() + "/" + the prefix "diff" given to ioutil.TempDir
TmpPrefix == <<"/", "t", "m", "p", "/", "d", "i", "f", "f">>
AllTempDirs == {TmpPrefix \o x : x \in Suffixes}

\* ioutil.TempDir with no check that the directory already exists
TempDirCandidatesNoCheck(existing) == AllTempDirs

\* the directories ioutil.TempDir can create and return: os.Mkdir fails on
\* an existing name and another random suffix is tried
TempDirCandidates(existing) == {d \in AllTempDirs : d \notin existing}

\* filepath.Join(dir, elem) for an elem without separators
FilepathJoin(dir, elem) == dir \o <<"/">> \o elem
LivePath(dir, name) == FilepathJoin(dir, <<"L", "I", "V", "E", "-">> \o name)
MergedPath(dir, name) == FilepathJoin(dir, <<"M", "E", "R", "G", "E", "D", "-">> \o name)

IsPrefix(a, b) == Len(a) <= Len(b) /\ SubSeq(b, 1, Len(a)) = a
\* the files os.RemoveAll(dir) leaves
FilesWithout(fs, dir) ==
    LET keep == {q \in DOMAIN fs : ~IsPrefix(dir \o <<"/">>, q)}
    IN [q \in keep |-> fs[q]]
PutFile(fs, path, data) ==
    [q \in DOMAIN fs \cup {path} |-> IF q = path THEN data ELSE fs[q]]

\* exec.LookPath as exec.Command applies it to a bare command name
LookPath(name) == <<"/", "b", "i", "n", "/">> \o name
\* (*exec.Cmd).String(): the resolved path, then the arguments, space-separated
CmdString(args) == StringsJoin(<<LookPath(args[1])>> \o Tail(args), <<" ">>)

\* the command of lines 47-53: avail is what isCommandAvailable("icdiff")
\* returned, width what terminal_width() returned
BuildCmd(avail, width, live, merged) ==
    IF avail
    THEN <<<<"i", "c", "d", "i", "f", "f">>, <<"-", "r">>,
           StringsJoin(<<<<"-", "-", "c", "o", "l", "s", "=">>, width>>, <<>>),
           live, merged>>
    ELSE <<<<"d", "i", "f", "f">>, <<"-", "u">>, <<"-", "N">>, live, merged>>

\* isCommandAvailable(name): shOk says `/bin/sh -c "command -v name"` exited 0.
\* log.Fatalf ends the process (os.Exit(1)); the return after it is never reached.
isCommandAvailable(shOk) == [fatal |-> ~shOk, ret |-> shOk]

\* lines 59-70: the result of DiffStr from the error of cmd.Run and the buffer
DiffStrResult(cmd, err, buf) ==
    IF err.kind = "ExitError" /\ err.code # 1
    THEN [out |-> <<>>, err |-> err]
    ELSE [out |-> IF buf # <<>> THEN CmdString(cmd) \o <<"\n">> \o buf ELSE buf,
          err |-> NilErr]

\* where DiffStr continues after every write is taken to have succeeded
AfterWriteIgnoreErr(which, ok) == IF which = "live" THEN "writeMerged" ELSE "probe"

\* where DiffStr continues after ioutil.WriteFile of LIVE- or MERGED-:
\* a failed write returns (the deferred RemoveAll runs)
AfterWrite(which, ok) ==
    IF ~ok THEN "cleanup"
    ELSE IF which = "live" THEN "writeMerged" ELSE "probe"

NoRet == [out |-> <<>>, err |-> NilErr]
IdleCall == [pc |-> "idle", name |-> <<>>, is |-> <<>>, should |-> <<>>,
             dir |-> <<>>, cmd |-> <<>>, buf |-> <<>>, runres |-> NoRun,
             ret |-> NoRet, seen |-> <<>>, avail |-> "none", probes |-> 0,
             starts |-> 0, failedAt |-> "none", liveWritten |-> FALSE,
             mergedWritten |-> FALSE, panicking |-> FALSE]

NotDiff == UNCHANGED <<nameVars, statVars, filtVars, twVars>>

\* goroutine c calls DiffStr(name, is, should)
Call(c, names, texts) ==
    /\ proc = "running" /\ calls[c].pc = "idle"
    /\ \E name \in names, t \in texts :
          calls' = [calls EXCEPT ![c] = [IdleCall EXCEPT !.pc = "tempdir", !.name = name,
                                                        !.is = t[1], !.should = t[2]]]
    /\ UNCHANGED <<dirs, files, proc>> /\ NotDiff

\* lines 30-34: ioutil.TempDir("", "diff"); on success RemoveAll is deferred
TempDir(c, mayFail) ==
    /\ proc = "running" /\ calls[c].pc = "tempdir"
    /\ \/ \E d \in TempDirCandidates(dirs) :
            /\ dirs' = dirs \cup {d}
            /\ calls' = [calls EXCEPT ![c].dir = d, ![c].pc = "writeLive"]
       \/ /\ mayFail
          /\ calls' = [calls EXCEPT ![c].pc = "done", ![c].failedAt = "tempdir",
                           ![c].ret = [out |-> <<>>, err |-> [kind |-> "PathError", code |-> 0]]]
          /\ dirs' = dirs
    /\ UNCHANGED <<files, proc>> /\ NotDiff

\* lines 36-41: ioutil.WriteFile(path, data).  A write fails when the
\* directory is gone, or for a reason of the system's; a failed write may
\* leave the created file behind, empty.
WriteFile(c, which, outcomes) ==
    LET k == calls[c]
        path == IF which = "live" THEN LivePath(k.dir, k.name) ELSE MergedPath(k.dir, k.name)
        data == IF which = "live" THEN k.is ELSE k.should
    IN /\ proc = "running"
       /\ k.pc = (IF which = "live" THEN "writeLive" ELSE "writeMerged")
       /\ \E o \in outcomes :
            /\ k.dir \notin dirs => o = "nofile"
            /\ files' = CASE o = "ok" -> PutFile(files, path, data)
                          [] o = "partial" -> PutFile(files, path, <<>>)
                          [] OTHER -> files
            /\ calls' = [calls EXCEPT
                  ![c].pc = AfterWrite(which, o = "ok"),
                  ![c].failedAt = IF o = "ok" THEN k.failedAt ELSE which,
                  ![c].ret = IF o = "ok" THEN k.ret
                             ELSE [out |-> <<>>, err |-> [kind |-> "PathError", code |-> 0]],
                  ![c].liveWritten = IF which = "live" THEN o = "ok" ELSE k.liveWritten,
                  ![c].mergedWritten = IF which = "merged" THEN o = "ok" ELSE k.mergedWritten]
       /\ UNCHANGED <<dirs, proc>> /\ NotDiff

WriteLive(c, outcomes) == WriteFile(c, "live", outcomes)
WriteMerged(c, outcomes) == WriteFile(c, "merged", outcomes)

\* line 48 (and 51-53): isCommandAvailable("icdiff")
Probe(c, shOutcomes) ==
    LET k == calls[c]
    IN /\ proc = "running" /\ k.pc = "probe"
       /\ \E shOk \in shOutcomes :
            LET r == isCommandAvailable(shOk)
            IN IF r.fatal
               THEN /\ proc' = "exited"
                    /\ calls' = [calls EXCEPT ![c].pc = "fatal", ![c].probes = k.probes + 1,
                                              ![c].avail = "unavailable"]
               ELSE /\ proc' = proc
                    /\ calls' = [calls EXCEPT
                          ![c].probes = k.probes + 1,
                          ![c].avail = IF r.ret THEN "available" ELSE "unavailable",
                          ![c].pc = IF r.ret THEN "width" ELSE "run",
                          ![c].cmd = IF r.ret THEN k.cmd
                                     ELSE BuildCmd(FALSE, <<>>, LivePath(k.dir, k.name),
                                                   MergedPath(k.dir, k.name))]
       /\ UNCHANGED <<dirs, files>> /\ NotDiff

\* lines 49-50: terminal_width() and the icdiff command.  A panic unwinds
\* the goroutine: the deferred RemoveAll runs, then the process dies.
TerminalWidth(c, sttyResults) ==
    LET k == calls[c]
    IN /\ proc = "running" /\ k.pc = "width"
       /\ \E res \in sttyResults :
            LET w == terminal_width(res)
            IN calls' = [calls EXCEPT
                  ![c].panicking = w.panic,
                  ![c].pc = IF w.panic THEN "cleanup" ELSE "run",
                  ![c].cmd = IF w.panic THEN k.cmd
                             ELSE BuildCmd(TRUE, w.val, LivePath(k.dir, k.name),
                                           MergedPath(k.dir, k.name))]
       /\ UNCHANGED <<dirs, files, proc>> /\ NotDiff

ReadFile(fs, path) ==
    IF path \in DOMAIN fs THEN [exists |-> TRUE, data |-> fs[path]]
    ELSE [exists |-> FALSE, data |-> <<>>]

\* lines 55-70: cmd.Run() with stdout captured, and the result of DiffStr.
\* A command that started reads the files its last two arguments name.
CmdRun(c, runResults, outs) ==
    LET k == calls[c]
        n == Len(k.cmd)
    IN /\ proc = "running" /\ k.pc = "run"
       /\ \E res \in runResults, stdout \in outs :
            /\ res.kind = "starterr" => stdout = <<>>
            /\ calls' = [calls EXCEPT
                  ![c].pc = "cleanup",
                  ![c].starts = k.starts + 1,
                  ![c].runres = res,
                  ![c].buf = stdout,
                  ![c].seen = IF res.kind = "starterr" THEN <<>>
                              ELSE <<ReadFile(files, k.cmd[n - 1]), ReadFile(files, k.cmd[n])>>,
                  ![c].ret = DiffStrResult(k.cmd, CmdRunErr(res), stdout)]
       /\ UNCHANGED <<dirs, files, proc>> /\ NotDiff

\* line 34, run at return or while a panic unwinds: os.RemoveAll(dir)
RemoveAll(c) ==
    LET k == calls[c]
    IN /\ proc = "running" /\ k.pc = "cleanup"
       /\ dirs' = dirs \ {k.dir}
       /\ files' = FilesWithout(files, k.dir)
       /\ calls' = [calls EXCEPT ![c].pc = IF k.panicking THEN "panicked" ELSE "done"]
       /\ proc' = IF k.panicking THEN "panicked" ELSE proc
       /\ NotDiff

\* the caller has the result; goroutine c may call again
Return(c) ==
    /\ proc = "running" /\ calls[c].pc = "done"
    /\ calls' = [calls EXCEPT ![c] = IdleCall]
    /\ UNCHANGED <<dirs, files, proc>> /\ NotDiff

\* the environment of the sequential specification
WriteOutcomes == {"ok", "nofile", "partial"}
DiffSttyResults ==
    {[err |-> TRUE, out |-> <<>>],
     [err |-> FALSE, out |-> <<"2", "4", " ", "8", "0", "\n">>],
     [err |-> FALSE, out |-> <<>>]}

\* one goroutine calling DiffStr again and again
NextDiff ==
    \/ Call(1, Names, Texts \X Texts)
    \/ TempDir(1, TRUE)
    \/ WriteLive(1, WriteOutcomes)
    \/ WriteMerged(1, WriteOutcomes)
    \/ Probe(1, BOOLEAN)
    \/ TerminalWidth(1, DiffSttyResults)
    \/ CmdRun(1, RunResults, DiffOuts)
    \/ RemoveAll(1)
    \/ Return(1)

\* the environment of the concurrent specification: the calls share one
\* name, and every step has one failing and one succeeding outcome
ConcNames == {<<"a">>}
\* (is, should) of a concurrent call
ConcTexts == {<<<<"x", "\n">>, <<"y", "\n">>>>, <<<<"y", "\n">>, <<"x", "\n">>>>}
ConcRunResults == {[kind |-> "exit", code |-> 1], [kind |-> "exit", code |-> 2]}
ConcOuts == {<<"@", "\n">>}

\* NumCalls goroutines calling DiffStr concurrently
NextConc ==
    \E c \in Calls :
        \/ Call(c, ConcNames, ConcTexts)
        \/ TempDir(c, FALSE)
        \/ WriteLive(c, {"ok", "nofile"})
        \/ WriteMerged(c, {"ok"})
        \/ Probe(c, BOOLEAN)
        \/ TerminalWidth(c, {[err |-> TRUE, out |-> <<>>]})
        \/ CmdRun(c, ConcRunResults, ConcOuts)
        \/ RemoveAll(c)
        \/ Return(c)

(***************************************************************************)
(* The specifications.  Each one runs one part of the package; the state   *)
(* of the other parts stays as it is before their first call.              *)
(***************************************************************************)
\* DiffStr, one goroutine
Init ==
    /\ calls = [c \in Calls |-> IdleCall]
    /\ dirs = {} /\ files = <<>> /\ proc = "running"
    /\ manifest = NoManifest /\ diffName = NoName /\ stat = NoStat
    /\ filt = <<>> /\ stderr = <<>> /\ wr = NoWrite /\ tw = NoTw

Spec == Init /\ [][NextDiff]_vars

\* DiffStr, NumCalls goroutines
SpecConc == Init /\ [][NextConc]_vars

\* DiffName on every manifest of Manifests
InitName ==
    /\ manifest \in Manifests /\ diffName = NoName
    /\ calls = <<>> /\ dirs = {} /\ files = <<>> /\ proc = "running"
    /\ stat = NoStat /\ filt = <<>> /\ stderr = <<>> /\ wr = NoWrite /\ tw = NoTw

SpecName == InitName /\ [][DiffNameCall]_vars

\* Diffstat on every text of DiffTexts
InitStat ==
    /\ stat \in {[NoStat EXCEPT !.d = d] : d \in DiffTexts}
    /\ calls = <<>> /\ dirs = {} /\ files = <<>> /\ proc = "running"
    /\ manifest = NoManifest /\ diffName = NoName
    /\ filt = <<>> /\ stderr = <<>> /\ wr = NoWrite /\ tw = NoTw

SpecStat == InitStat /\ [][DiffstatCall]_vars

\* a FilteredErr of Filters and up to MaxWrites calls of its Write
InitFilt ==
    /\ filt \in Filters /\ stderr = <<>> /\ wr = NoWrite
    /\ calls = <<>> /\ dirs = {} /\ files = <<>> /\ proc = "running"
    /\ manifest = NoManifest /\ diffName = NoName /\ stat = NoStat /\ tw = NoTw

SpecFilter == InitFilt /\ [][Write]_vars

\* terminal_width on every outcome of `stty size` in SttyResults
InitTw ==
    /\ tw \in {[NoTw EXCEPT !.res = res] : res \in SttyResults}
    /\ calls = <<>> /\ dirs = {} /\ files = <<>> /\ proc = "running"
    /\ manifest = NoManifest /\ diffName = NoName /\ stat = NoStat
    /\ filt = <<>> /\ stderr = <<>> /\ wr = NoWrite

SpecWidth == InitTw /\ [][TerminalWidthCall]_vars

(***************************************************************************)
(* Properties of DiffStr, one goroutine (Spec).                            *)
(***************************************************************************)
\* the call of goroutine c has ended: it returned, or it ended the process
Ended(k) == k.pc \in {"done", "fatal", "panicked"}
\* nothing of the call's workspace exists
NoWorkspace(k) ==
    /\ k.dir \notin dirs
    /\ LivePath(k.dir, k.name) \notin DOMAIN files
    /\ MergedPath(k.dir, k.name) \notin DOMAIN files

\* C1: after any call to DiffStr ends, on every exit path (success, a failed
\* write, any exit code of the command, a command that does not start, a
\* failed availability probe), the temporary directory of the call and its
\* LIVE-<name> and MERGED-<name> files no longer exist.
C1_NoWorkspaceLeft == \A c \in Calls : Ended(calls[c]) => NoWorkspace(calls[c])

\* the part of C1 the code keeps: a call that returns, or panics, leaves nothing
DiffStrCleansUpUnlessFatal ==
    \A c \in Calls : calls[c].pc \in {"done", "panicked"} => NoWorkspace(calls[c])

\* C2: DiffStr returns a nil error when the command exits with 0 or 1, and
\* a non-nil error in every other case of the command run: any other exit
\* code, and any failure that is not a process-exit error.
C2_NilErrorIffExit0Or1 ==
    \A c \in Calls :
        LET k == calls[c]
        IN (k.starts > 0 /\ k.pc \in {"cleanup", "done"}) =>
              ((k.ret.err = NilErr) <=> (k.runres.kind = "exit" /\ k.runres.code \in {0, 1}))

\* C3: when icdiff is available the command is
\* icdiff -r --cols=<width> <live> <merged>; when it is not, DiffStr goes on
\* to run diff -u -N <live> <merged> and returns its result.
C3_ToolSelection ==
    \A c \in Calls :
        LET k == calls[c]
            live == LivePath(k.dir, k.name)
            merged == MergedPath(k.dir, k.name)
        IN /\ (k.avail = "available" /\ k.cmd # <<>>) =>
                 /\ Len(k.cmd) = 5
                 /\ k.cmd[1] = <<"i", "c", "d", "i", "f", "f">>
                 /\ k.cmd[2] = <<"-", "r">>
                 /\ IsPrefix(<<"-", "-", "c", "o", "l", "s", "=">>, k.cmd[3])
                 /\ k.cmd[4] = live /\ k.cmd[5] = merged
           /\ k.avail = "unavailable" =>
                 /\ k.pc \in {"run", "cleanup", "done"}
                 /\ k.cmd = <<<<"d", "i", "f", "f">>, <<"-", "u">>, <<"-", "N">>, live, merged>>

\* C4: for every successful call, empty captured output gives the empty
\* string; otherwise the result is one header line (the command and its
\* arguments), one newline, then the captured output unmodified.
C4_OneHeaderLineThenOutput ==
    \A c \in Calls :
        LET k == calls[c]
            out == k.ret.out
        IN (k.starts > 0 /\ k.pc \in {"cleanup", "done"} /\ k.ret.err = NilErr) =>
              IF k.buf = <<>> THEN out = <<>>
              ELSE \E h \in 2..Len(out) :
                      /\ out[h] = "\n"
                      /\ \A i \in 1..(h - 1) : out[i] # "\n"
                      /\ SubSeq(out, 1, h - 1) = CmdString(k.cmd)
                      /\ SubSeq(out, h + 1, Len(out)) = k.buf

\* C10: if creating the temporary directory, writing LIVE-<name> or writing
\* MERGED-<name> fails, the call returns ("", that error) at once: no probe,
\* no command; the probe and the command run at most once per call and only
\* after both files were written.
C10_FailFastNoRetry ==
    \A c \in Calls :
        LET k == calls[c]
        IN /\ k.failedAt # "none" =>
                 /\ k.probes = 0 /\ k.starts = 0
                 /\ k.pc \in {"cleanup", "done"}
                 /\ k.ret = [out |-> <<>>, err |-> [kind |-> "PathError", code |-> 0]]
           /\ k.probes <= 1 /\ k.starts <= 1
           /\ k.probes > 0 => (k.liveWritten /\ k.mergedWritten)
           /\ k.starts > 0 => (k.probes = 1 /\ k.liveWritten /\ k.mergedWritten)

\* a call whose LIVE- write succeeded and whose MERGED- write failed has returned
C10_Witness ==
    \E c \in Calls :
        /\ calls[c].pc = "done" /\ calls[c].failedAt = "merged"
        /\ calls[c].liveWritten /\ ~calls[c].mergedWritten

(***************************************************************************)
(* Properties of concurrent DiffStr calls (SpecConc).                      *)
(***************************************************************************)
\* the call holds a workspace: TempDir returned and RemoveAll has not run
HoldsWorkspace(k) ==
    k.pc \in {"writeLive", "writeMerged", "probe", "width", "run", "cleanup"}

\* C8: concurrent calls, also with the same name, have distinct workspaces;
\* the LIVE- and MERGED- files a call wrote stay as it wrote them until its
\* command has run, and the command reads exactly the two texts of its call.
C8_WorkspacesNotShared ==
    /\ \A c1, c2 \in Calls :
          (c1 # c2 /\ HoldsWorkspace(calls[c1]) /\ HoldsWorkspace(calls[c2]))
              => calls[c1].dir # calls[c2].dir
    /\ \A c \in Calls :
          LET k == calls[c]
          IN /\ k.pc \in {"writeMerged", "probe", "width", "run"} =>
                   ReadFile(files, LivePath(k.dir, k.name)) = [exists |-> TRUE, data |-> k.is]
             /\ k.pc \in {"probe", "width", "run"} =>
                   ReadFile(files, MergedPath(k.dir, k.name))
                       = [exists |-> TRUE, data |-> k.should]
             /\ k.seen # <<>> =>
                   k.seen = <<[exists |-> TRUE, data |-> k.is],
                              [exists |-> TRUE, data |-> k.should]>>

\* two calls with the same name and different texts have both run their command
C8_Witness ==
    \E c1, c2 \in Calls :
        /\ c1 # c2
        /\ calls[c1].pc = "cleanup" /\ calls[c2].pc = "cleanup"
        /\ calls[c1].seen # <<>> /\ calls[c2].seen # <<>>
        /\ calls[c1].name = calls[c2].name
        /\ calls[c1].is # calls[c2].is

(***************************************************************************)
(* Properties of FilteredErr.Write (SpecFilter).                           *)
(***************************************************************************)
AnyMatch(r, p) == \E i \in 1..Len(r) : RegexpMatch(r[i], p)

\* C5 as stated: if a pattern matches p nothing reaches the error stream,
\* otherwise p reaches it unchanged, and in both cases the call reports
\* len(p) bytes and no error.
C5_AlwaysFullLengthNoError ==
    wr.count > 0 =>
        /\ stderr = (IF AnyMatch(filt, wr.p) THEN wr.before ELSE wr.before \o wr.p)
        /\ wr.n = Len(wr.p)
        /\ wr.err = NilErr

\* C5 amended: if a pattern matches p nothing reaches the error stream and
\* the call reports (len(p), nil); otherwise p is handed to the error stream
\* and the call returns that stream's own (count, error): (len(p), nil) with
\* all of p forwarded when the stream's write succeeds.
C5_FilterOrForward ==
    wr.count > 0 =>
        IF AnyMatch(filt, wr.p)
        THEN stderr = wr.before /\ wr.n = Len(wr.p) /\ wr.err = NilErr
        ELSE /\ stderr = wr.before \o SubSeq(wr.p, 1, wr.under.n)
             /\ wr.n = wr.under.n /\ wr.err = wr.under.err
             /\ wr.under.err = NilErr => (stderr = wr.before \o wr.p /\ wr.n = Len(wr.p))

\* after an earlier write was forwarded, a write that only the second
\* pattern matches was discarded
C5_Witness ==
    /\ wr.count = 2 /\ Len(filt) = 2
    /\ wr.before # <<>>
    /\ ~RegexpMatch(filt[1], wr.p) /\ RegexpMatch(filt[2], wr.p)
    /\ stderr = wr.before /\ wr.n = Len(wr.p) /\ wr.n > 0

(***************************************************************************)
(* Properties of Diffstat (SpecStat).                                      *)
(***************************************************************************)
\* C6: Diffstat returns a non-nil error and no summary whenever diffstat
\* exits with a non-zero code (1 included) or cannot be run, and the
\* captured output with a nil error exactly when it exits with 0.
C6_ErrorUnlessExitZero ==
    stat.done =>
        LET zero == stat.res.kind = "exit" /\ stat.res.code = 0
        IN /\ zero => (stat.ret.err = NilErr /\ ~stat.ret.isnil /\ stat.ret.out = stat.stdout)
           /\ ~zero => (stat.ret.err # NilErr /\ stat.ret.isnil /\ stat.ret.out = <<>>)

\* diffstat wrote a summary and exited with 1: Diffstat returned an error
C6_Witness ==
    /\ stat.done /\ stat.res = [kind |-> "exit", code |-> 1]
    /\ stat.stdout # <<>> /\ stat.d # <<>>
    /\ stat.ret.isnil /\ stat.ret.err # NilErr

(***************************************************************************)
(* Properties of terminal_width (SpecWidth).                               *)
(***************************************************************************)
IsSpace(ch) == ch \in {" ", "\n"}
\* the length of the longest prefix of s without white space
RECURSIVE WordLen(_)
WordLen(s) == IF s = <<>> \/ IsSpace(Head(s)) THEN 0 ELSE 1 + WordLen(Tail(s))
\* the white-space-separated tokens of s
RECURSIVE Tokens(_)
Tokens(s) ==
    IF s = <<>> THEN <<>>
    ELSE IF IsSpace(Head(s)) THEN Tokens(Tail(s))
         ELSE <<SubSeq(s, 1, WordLen(s))>> \o Tokens(SubSeq(s, WordLen(s) + 1, Len(s)))

\* C9: terminal_width returns "80" whenever `stty size` fails or its output
\* is malformed (empty, or without a second space-separated token); it never
\* crashes, and on well-formed output it returns the second
\* white-space-separated token.
C9_Width80OnFailureOrMalformed ==
    tw.done =>
        LET malformed == Len(StringsSplit(tw.res.out, " ")) < 2
        IN /\ ~tw.panic
           /\ (tw.res.err \/ malformed) => tw.val = Default80
           /\ (~tw.res.err /\ ~malformed) =>
                 (Len(Tokens(tw.res.out)) >= 2 /\ tw.val = Tokens(tw.res.out)[2])

\* the part of C9 the code keeps: "80" when `stty size` fails
TerminalWidth80OnError == (tw.done /\ tw.res.err) => (~tw.panic /\ tw.val = Default80)

(***************************************************************************)
(* Properties of DiffName (SpecName).                                      *)
(* C7: DiffName returns "<apiVersion>.<kind>.<namespace>.<name>" with      *)
(* every '/' replaced by '-': the result has the four fields' lengths plus *)
(* three, agrees with the joined fields at every position that is not a    *)
(* '/', has '-' where the joined fields have '/', contains no '/', and     *)
(* replacing '/' by '-' in it again changes nothing.                       *)
(***************************************************************************)
C7_DiffNameNoSlash ==
    diffName.done =>
        LET joined == StringsJoin(<<manifest.apiVersion, manifest.kind,
                                    manifest.namespace, manifest.name>>, <<".">>)
            out == diffName.out
        IN /\ Len(out) = Len(joined)
           /\ \A i \in 1..Len(joined) :
                  out[i] = (IF joined[i] = "/" THEN "-" ELSE joined[i])
           /\ ~Contains(out, "/")
           /\ StringsReplace(out, "/", "-", -1) = out

\* a manifest with two '/' in it (apps/v1 and a '/' in the name) was formatted
C7_Witness ==
    /\ diffName.done
    /\ Contains(manifest.apiVersion, "/")
    /\ Contains(manifest.name, "/")
    /\ manifest.namespace = <<>>

====
